---- MODULE Spec2Model ----
(***************************************************************************)
(* A model of the JSON lexer (src/src/lex.rs) and of the hand-expanded LR  *)
(* parser (src/src/parse.rs).                                              *)
(*                                                                         *)
(* The buffer is a sequence of bytes (0..255).  A slice `&source[p..]` is  *)
(* the pair (buffer, p): p is the number of bytes already consumed.        *)
(* A Rust String is the sequence of its UTF-8 bytes.                       *)
(***************************************************************************)
EXTENDS Integers, Sequences, FiniteSets, TLC

\* The unit value `()`.
Unit == <<>>

\* i32::MAX and i32::MIN, written so that no literal leaves the 32-bit range.
I32Max == 2147483647
I32Min == (-2147483647) - 1

(***************************************************************************)
(* Slice patterns.                                                         *)
(***************************************************************************)

\* The first byte of the slice s[p..], or -1 when the slice is empty
\* (the pattern `[b, ref rest..]` matches exactly when Peek(s, p) # -1).
Peek(s, p) == IF p < Len(s) THEN s[p + 1] ELSE -1

\* `[b0, b1, .., ref rest..]`: the slice s[p..] starts with the bytes of lit.
StartsWith(s, p, lit) ==
    /\ p + Len(lit) <= Len(s)
    /\ \A k \in 1..Len(lit) : s[p + k] = lit[k]

\* The bytes skipped before a token: space, tab, CR, LF.
Whitespace == {32, 9, 13, 10}

\* The whitespace loop at the head of Lex::token.
RECURSIVE skip_whitespace(_, _)
skip_whitespace(s, p) ==
    IF Peek(s, p) \in Whitespace THEN skip_whitespace(s, p + 1) ELSE p

(***************************************************************************)
(* Fixed-width arithmetic.  With overflow checks (a debug build) an        *)
(* overflowing operation panics; without (a release build) it wraps.       *)
(***************************************************************************)

\* A u64 is four 16-bit limbs, most significant first.
U64Zero == <<0, 0, 0, 0>>

U64OfDigit(d) == <<0, 0, 0, d>>

\* `10 * x + d` on u64: the wrapped result and whether the exact result
\* left the range of u64.
U64MulAdd10(x, d) ==
    LET t0 == 10 * x[4] + d
        t1 == 10 * x[3] + (t0 \div 65536)
        t2 == 10 * x[2] + (t1 \div 65536)
        t3 == 10 * x[1] + (t2 \div 65536)
    IN  [val |-> <<t3 % 65536, t2 % 65536, t1 % 65536, t0 % 65536>>,
         ovf |-> (t3 \div 65536) # 0]

\* The i32 with the 32-bit pattern hi * 2^16 + lo.
I32OfLimbs(hi, lo) ==
    IF hi >= 32768 THEN (hi - 65536) * 65536 + lo ELSE hi * 65536 + lo

\* `10 * e + d` on i32, for a digit d.
I32MulAdd10(e, d) ==
    LET lo == e % 65536
        hi == (e \div 65536) % 65536
        t0 == 10 * lo + d
        t1 == 10 * hi + (t0 \div 65536)
    IN  [val |-> I32OfLimbs(t1 % 65536, t0 % 65536),
         ovf |-> \/ e > 214748364
                 \/ (e = 214748364 /\ d > 7)
                 \/ e < -214748364]

\* `a + b` on i32.
I32Add(a, b) ==
    LET over  == b > 0 /\ a > I32Max - b
        under == b < 0 /\ a < I32Min - b
    IN  [val |-> IF over THEN (a + I32Min) + (b + I32Min)
                 ELSE IF under THEN ((a + I32Max) + 1) + ((b + I32Max) + 1)
                 ELSE a + b,
         ovf |-> over \/ under]

\* `a - b` on i32.
I32Sub(a, b) ==
    LET over  == b < 0 /\ a > I32Max + b
        under == b > 0 /\ a < I32Min + b
    IN  [val |-> IF over THEN (a + I32Min) - (b + I32Max) - 1
                 ELSE IF under THEN ((a + I32Max) + 1) - (b + I32Min)
                 ELSE a - b,
         ovf |-> over \/ under]

(***************************************************************************)
(* Lex::code_unit and Lex::unicode_escape.                                 *)
(***************************************************************************)

\* The three digit arms of code_unit: the digit a byte stands for, or -1
\* when no arm matches.
HexDigit(b) ==
    IF b \in 48..57 THEN b - 48
    ELSE IF b \in 65..90 THEN (b - 65) + 10
    ELSE IF b \in 97..122 THEN (b - 97) + 10
    ELSE -1

\* Option<u32> and the slice left, as code_unit returns them.
NoUnit(rest) == [abort |-> "none", some |-> FALSE, val |-> 0, rest |-> rest]

\* `code_unit = 16 * code_unit + digit` on u16: the new value, or -1 when
\* the build checks overflow and the exact result leaves the range of u16.
U16Accumulate(cu, digit, checks) ==
    IF 16 * cu + digit > 65535 /\ checks THEN -1 ELSE (16 * cu + digit) % 65536

\* The `for _ in 0..4` loop of code_unit, n iterations done, code_unit = cu.
RECURSIVE code_unit_loop(_, _, _, _, _)
code_unit_loop(s, p, n, cu, checks) ==
    IF n = 4 THEN [abort |-> "none", some |-> TRUE, val |-> cu, rest |-> p]
    ELSE IF HexDigit(Peek(s, p)) = -1 THEN NoUnit(p)
    ELSE IF U16Accumulate(cu, HexDigit(Peek(s, p)), checks) = -1
    THEN [abort |-> "overflow", some |-> FALSE, val |-> 0, rest |-> p]
    ELSE code_unit_loop(s, p + 1, n + 1,
                        U16Accumulate(cu, HexDigit(Peek(s, p)), checks), checks)

code_unit(s, p, checks) == code_unit_loop(s, p, 0, 0, checks)

\* A faulty `|` that loses its left operand.
BitOrLosesLeft(a, b) == b

\* Bitwise or of two naturals.
RECURSIVE BitOr(_, _)
BitOr(a, b) ==
    IF a = 0 THEN b
    ELSE IF b = 0 THEN a
    ELSE 2 * BitOr(a \div 2, b \div 2) + (IF a % 2 = 1 \/ b % 2 = 1 THEN 1 ELSE 0)

\* char::from_u32 accepts a scalar value: not a surrogate, at most 0x10FFFF.
IsChar(x) == x <= 1114111 /\ ~(x \in 55296..57343)

\* Option<u32>.and_then(char::from_u32).unwrap_or('\u{FFFD}').
CharOrReplacement(some, x) == IF some /\ IsChar(x) THEN x ELSE 65533

\* Lines 150-153: the code unit of a second `\u` escape, if one follows.
second_unit(s, rest, checks) ==
    IF StartsWith(s, rest, <<92, 117>>) THEN code_unit(s, rest + 2, checks)
    ELSE NoUnit(rest)

\* Lines 154-160: the pair of the leading surrogate s1 and what followed it.
surrogate_pair(p, s1, u2) ==
    IF u2.abort # "none" THEN [abort |-> u2.abort, c |-> 0, rest |-> p]
    ELSE IF u2.some /\ u2.val \in 56320..57343
    THEN [abort |-> "none",
          c |-> CharOrReplacement(TRUE,
                    65536 + BitOr((s1 - 55296) * 1024, u2.val - 56320)),
          rest |-> u2.rest]
    ELSE [abort |-> "none", c |-> CharOrReplacement(FALSE, 0), rest |-> u2.rest]

\* The match of unicode_escape on u1, what code_unit returned.
unicode_escape_match(s, p, checks, u1) ==
    IF u1.abort # "none" THEN [abort |-> u1.abort, c |-> 0, rest |-> p]
    ELSE IF u1.some /\ u1.val \in 55296..56319
    THEN surrogate_pair(p, u1.val, second_unit(s, u1.rest, checks))
    ELSE [abort |-> "none", c |-> CharOrReplacement(u1.some, u1.val),
          rest |-> u1.rest]

unicode_escape(s, p, checks) ==
    unicode_escape_match(s, p, checks, code_unit(s, p, checks))

(***************************************************************************)
(* Lex::string.                                                            *)
(***************************************************************************)

\* String::push(c): the UTF-8 encoding of the scalar value c.
Utf8(c) ==
    IF c < 128 THEN <<c>>
    ELSE IF c < 2048 THEN <<192 + (c \div 64), 128 + (c % 64)>>
    ELSE IF c < 65536
    THEN <<224 + (c \div 4096), 128 + ((c \div 64) % 64), 128 + (c % 64)>>
    ELSE <<240 + (c \div 262144), 128 + ((c \div 4096) % 64),
           128 + ((c \div 64) % 64), 128 + (c % 64)>>

\* A faulty table that also takes `\x` for an escape of `x`.
SimpleEscapesAnyLetter ==
    {<<34, 34>>, <<92, 92>>, <<47, 47>>, <<98, 8>>, <<102, 12>>,
     <<110, 10>>, <<114, 13>>, <<116, 9>>, <<120, 120>>}

\* The two-byte escapes other than \u: the byte after the backslash and the
\* byte pushed.
SimpleEscapes ==
    {<<34, 34>>, <<92, 92>>, <<47, 47>>, <<98, 8>>, <<102, 12>>,
     <<110, 10>>, <<114, 13>>, <<116, 9>>}

Unescaped(b1) == (CHOOSE e \in SimpleEscapes : e[1] = b1)[2]

IsContinuation(b) == b \in 128..191

\* How many bytes the arm of Lex::string that matches s[p..] consumes and
\* copies through: 1 to 4 for the UTF-8 arms, 0 when none of them matches.
Utf8Arm(b0, b1, b2, b3) ==
    IF b0 \in 0..127 THEN 1
    ELSE IF b0 \in 192..223 /\ IsContinuation(b1) THEN 2
    ELSE IF b0 \in 224..239 /\ IsContinuation(b1) /\ IsContinuation(b2) THEN 3
    ELSE IF b0 \in 240..255 /\ IsContinuation(b1) /\ IsContinuation(b2)
            /\ IsContinuation(b3) THEN 4
    ELSE 0

\* The loop of Lex::string with `string` = acc, after the opening quote;
\* u is what unicode_escape returns on s[p+2..] (read by the \u arm only).
RECURSIVE string_loop(_, _, _, _)
string_arm(s, p, acc, checks, b0, b1, arm, u) ==
    IF b0 = 34
    THEN [abort |-> "none", kind |-> "String", val |-> acc, rest |-> p + 1]
    ELSE IF b0 = 92 /\ \E e \in SimpleEscapes : e[1] = b1
    THEN string_loop(s, p + 2, Append(acc, Unescaped(b1)), checks)
    ELSE IF b0 = 92 /\ b1 = 117
    THEN IF u.abort # "none"
         THEN [abort |-> u.abort, kind |-> "Error", val |-> Unit, rest |-> p]
         ELSE string_loop(s, u.rest, acc \o Utf8(u.c), checks)
    ELSE IF arm > 0
    THEN string_loop(s, p + arm, acc \o SubSeq(s, p + 1, p + arm), checks)
    ELSE IF b0 # -1
    THEN [abort |-> "unreachable", kind |-> "Error", val |-> Unit, rest |-> p]
    ELSE [abort |-> "none", kind |-> "Error", val |-> Unit, rest |-> p]

string_loop(s, p, acc, checks) ==
    string_arm(s, p, acc, checks, Peek(s, p), Peek(s, p + 1),
               Utf8Arm(Peek(s, p), Peek(s, p + 1), Peek(s, p + 2), Peek(s, p + 3)),
               unicode_escape(s, p + 2, checks))

string(s, p, checks) == string_loop(s, p, <<>>, checks)

(***************************************************************************)
(* Lex::number.                                                            *)
(***************************************************************************)

IsDigit(b) == b \in 48..57

\* The state of a digit loop over the u64 significand: n digits read.
Digits(significand, n, rest) ==
    [abort |-> "none", significand |-> significand, n |-> n, rest |-> rest]

\* `significand = 10 * significand + digit`, then the rest of the loop.
RECURSIVE significand_loop(_, _, _, _, _)
significand_step(s, p, significand, n, checks, next) ==
    IF next.ovf /\ checks
    THEN [abort |-> "overflow", significand |-> significand, n |-> n, rest |-> p]
    ELSE significand_loop(s, p + 1, next.val, n + 1, checks)

\* The two `while let [b @ b'0'..=b'9', ..]` loops over the significand
\* (integer part and fractional part): n counts the digits read, so the
\* fractional loop leaves `exponent` = -n and `any_digits` = (n > 0).
significand_loop(s, p, significand, n, checks) ==
    IF IsDigit(Peek(s, p))
    THEN significand_step(s, p, significand, n, checks,
                          U64MulAdd10(significand, Peek(s, p) - 48))
    ELSE Digits(significand, n, p)

\* `explicit_exponent = 10 * explicit_exponent + digit`, then the rest of
\* the loop.
RECURSIVE exponent_loop(_, _, _, _, _)
exponent_step(s, p, explicit_exponent, checks, next) ==
    IF next.ovf /\ checks
    THEN [abort |-> "overflow", val |-> explicit_exponent, any_digits |-> TRUE,
          rest |-> p]
    ELSE exponent_loop(s, p + 1, next.val, TRUE, checks)

\* The `while let` loop over the i32 explicit_exponent.
exponent_loop(s, p, explicit_exponent, any_digits, checks) ==
    IF IsDigit(Peek(s, p))
    THEN exponent_step(s, p, explicit_exponent, checks,
                       I32MulAdd10(explicit_exponent, Peek(s, p) - 48))
    ELSE [abort |-> "none", val |-> explicit_exponent,
          any_digits |-> any_digits, rest |-> p]

\* The payload of a Number token.  The f64 of lines 275-283 is a function of
\* the sign, the significand and the decimal exponent; it is kept as that
\* triple (no claim here depends on the floating-point rounding).
F64(positive, significand, exponent) ==
    [positive |-> positive, significand |-> significand, exponent |-> exponent]

NumberAbort(p) == [abort |-> "overflow", kind |-> "Error", val |-> Unit, rest |-> p]

NumberError(p) == [abort |-> "none", kind |-> "Error", val |-> Unit, rest |-> p]

\* Lines 275-285: `i32::abs(exponent)`, the scaling loop and the sign.
number_value(p, positive, significand, exponent, checks) ==
    IF exponent = I32Min /\ checks THEN NumberAbort(p)
    ELSE [abort |-> "none", kind |-> "Number",
          val |-> F64(positive, significand, exponent), rest |-> p]

\* Lines 268-272: `exponent += explicit_exponent` or `-=`, sum being its
\* result.
number_scaled(p, positive, significand, checks, sum) ==
    IF sum.ovf /\ checks THEN NumberAbort(p)
    ELSE number_value(p, positive, significand, sum.val, checks)

\* Lines 264-272, e being what the loop over the exponent digits left.
number_exponent_digits(positive, significand, exponent, checks, exp_positive, e) ==
    IF e.abort # "none" THEN NumberAbort(e.rest)
    ELSE IF ~e.any_digits THEN NumberError(e.rest)
    ELSE number_scaled(e.rest, positive, significand, checks,
                       IF exp_positive THEN I32Add(exponent, e.val)
                       ELSE I32Sub(exponent, e.val))

\* Lines 241-273: the optional exponent part.
number_exponent(s, p, positive, significand, exponent, checks) ==
    IF Peek(s, p) \in {101, 69}
    THEN number_exponent_digits(positive, significand, exponent, checks,
            Peek(s, p + 1) # 45,
            exponent_loop(s, IF Peek(s, p + 1) \in {43, 45} THEN p + 2 ELSE p + 1,
                          0, FALSE, checks))
    ELSE number_value(p, positive, significand, exponent, checks)

\* Lines 236-239, f being what the loop over the fraction digits left (dot
\* says whether there was a `.` at all).
number_fraction_digits(s, positive, checks, dot, f) ==
    IF f.abort # "none" THEN NumberAbort(f.rest)
    ELSE IF dot /\ f.n = 0 THEN NumberError(f.rest)
    ELSE number_exponent(s, f.rest, positive, f.significand, -f.n, checks)

\* Lines 224-239: the optional fraction part.
number_fraction(s, p, positive, significand, checks) ==
    number_fraction_digits(s, positive, checks, Peek(s, p) = 46,
        IF Peek(s, p) = 46 THEN significand_loop(s, p + 1, significand, 0, checks)
        ELSE Digits(significand, 0, p))

\* Lines 220-224, i being what the integer part left.
number_integer_digits(s, positive, checks, i) ==
    IF i.abort # "none" THEN NumberAbort(i.rest)
    ELSE number_fraction(s, i.rest, positive, i.significand, checks)

\* Lines 205-222: the integer part, a lone `0` or a digit 1-9 and the digits
\* after it.
number_integer(s, p, positive, checks) ==
    IF IsDigit(Peek(s, p))
    THEN number_integer_digits(s, positive, checks,
            IF Peek(s, p) = 48 THEN Digits(U64Zero, 1, p + 1)
            ELSE significand_loop(s, p + 1, U64OfDigit(Peek(s, p) - 48), 1, checks))
    ELSE NumberError(p)

number(s, p, checks) ==
    number_integer(s, IF Peek(s, p) = 45 THEN p + 1 ELSE p, Peek(s, p) # 45, checks)

(***************************************************************************)
(* Lex::token.                                                             *)
(***************************************************************************)

\* The one-byte tokens.
Punctuation ==
    [b \in {123, 125, 91, 93, 58, 44} |->
        CASE b = 123 -> "LeftBrace"
          [] b = 125 -> "RightBrace"
          [] b = 91  -> "LeftBracket"
          [] b = 93  -> "RightBracket"
          [] b = 58  -> "Colon"
          [] b = 44  -> "Comma"]

\* The literals `true`, `false`, `null`.
TrueLit == <<116, 114, 117, 101>>

FalseLit == <<102, 97, 108, 115, 101>>

NullLit == <<110, 117, 108, 108>>

\* A faulty catch-all arm that answers End for a byte it does not know.
other_byte_end(p) == [abort |-> "none", kind |-> "End", val |-> Unit, rest |-> p + 1]

\* `[_, ref rest..] => (TokenKind::Error, rest)`: any other byte.
other_byte(p) == [abort |-> "none", kind |-> "Error", val |-> Unit, rest |-> p + 1]

\* `[ref rest..] => (TokenKind::End, rest)`: the empty slice.
end_of_input(p) == [abort |-> "none", kind |-> "End", val |-> Unit, rest |-> p]

\* The match on the first byte of the slice s[p..] (after the whitespace).
token_kind(s, p, checks) ==
    IF Peek(s, p) \in DOMAIN Punctuation
    THEN [abort |-> "none", kind |-> Punctuation[Peek(s, p)], val |-> Unit,
          rest |-> p + 1]
    ELSE IF Peek(s, p) = 34 THEN string(s, p + 1, checks)
    ELSE IF Peek(s, p) = 45 \/ IsDigit(Peek(s, p)) THEN number(s, p, checks)
    ELSE IF StartsWith(s, p, TrueLit)
    THEN [abort |-> "none", kind |-> "Bool", val |-> TRUE, rest |-> p + 4]
    ELSE IF StartsWith(s, p, FalseLit)
    THEN [abort |-> "none", kind |-> "Bool", val |-> FALSE, rest |-> p + 5]
    ELSE IF StartsWith(s, p, NullLit)
    THEN [abort |-> "none", kind |-> "Null", val |-> Unit, rest |-> p + 4]
    ELSE IF Peek(s, p) # -1 THEN other_byte(p)
    ELSE end_of_input(p)

\* Lines 74-79: the span s[start..rest] and the token built from it.
token_span(start, t) ==
    [abort |-> t.abort, kind |-> t.kind, val |-> t.val,
     start |-> start, end |-> t.rest]

\* The token at s[start..], where the whitespace ended.
token_at(s, start, checks) == token_span(start, token_kind(s, start, checks))

\* A faulty Lex::token that measures the span from where the whitespace
\* starts.
token_from_cursor(s, p, checks) ==
    token_span(p, token_kind(s, skip_whitespace(s, p), checks))

\* Lex::token on the lexer whose `source` is s[p..]: the token (its span is
\* s[start..end]) and the new `source` s[end..]; `abort` says whether the
\* call panicked instead of returning.
token(s, p, checks) == token_at(s, skip_whitespace(s, p), checks)

(***************************************************************************)
(* json::Value and the parser's Nonterminal.                               *)
(***************************************************************************)

\* json::Value: a tag and its payload.  An Object (HashMap<String, Value>)
\* is a function from keys to values, an Array (Vec<Value>) a sequence.
Value(tag, payload) == [t |-> tag, v |-> payload]

\* Nonterminal: a tag and the result of the production's action.
Nonterminal(tag, payload) == [nt |-> tag, v |-> payload]

\* json::Object::new() and json::Array::new().
NewObject == [k \in {} |-> Unit]

NewArray == <<>>

\* A faulty insert that keeps the value a key already has.
InsertKeepsFirst(object, key, val) ==
    [k \in (DOMAIN object) \cup {key} |->
        IF k \in DOMAIN object THEN object[k] ELSE val]

\* HashMap::insert(key, val): a key already present is overwritten.
Insert(object, key, val) ==
    [k \in (DOMAIN object) \cup {key} |-> IF k = key THEN val ELSE object[k]]

\* A faulty push that puts val in front.
PushFront(array, val) == <<val>> \o array

\* Vec::push(val).
Push(array, val) == Append(array, val)

(***************************************************************************)
(* The state: a lexer over `buffer`, and the call stack of Parse::value.   *)
(***************************************************************************)
VARIABLES
    buffer,           \* the bytes handed to Parse::new / Lex::new
    overflow_checks,  \* the build: TRUE panics on integer overflow, FALSE wraps
    cursor,           \* Lex.source is buffer[cursor..]
    emitted,          \* the tokens Lex::token has returned so far, in order
    stack,            \* the activation records of the parser, innermost last
    result,           \* <<(token, nonterminal)>> just returned by a callee, else <<>>
    outcome,          \* "lexing" | "running" | "Ok" | "Err" | "panic"
    panic,            \* the reason of the panic, "none" without one
    returned          \* the json::Value of Ok(value), Unit otherwise

vars == <<buffer, overflow_checks, cursor, emitted, stack, result, outcome,
          panic, returned>>

\* A Token as the parser holds it.
Tok(t) == [kind |-> t.kind, val |-> t.val, start |-> t.start, end |-> t.end]

\* What `self.lex.token()` does on the current lexer.
NextToken == token(buffer, cursor, overflow_checks)

\* The innermost activation and the ones below it.
Top == stack[Len(stack)]

Callers == SubSeq(stack, 1, Len(stack) - 1)

\* The parser is inside state function f, about to run its body.
At(f) == outcome = "running" /\ stack # <<>> /\ Top.fn = f /\ Top.pc = "call"

\* The parser is inside state function f, whose callee has just returned.
InLoop(f) ==
    outcome = "running" /\ stack # <<>> /\ Top.fn = f /\ Top.pc = "loop"
    /\ result # <<>>

\* The call advanced the lexer and handed t to the parser.
Pulled(t) == cursor' = t.end /\ emitted' = Append(emitted, Tok(t))

NoPull == UNCHANGED <<cursor, emitted>>

\* A panic unwinds the whole call: nothing is returned.
Panic(reason) ==
    outcome' = "panic" /\ panic' = reason /\ UNCHANGED <<stack, result, returned>>

\* Lex::token panicked inside the parser.
LexPanic(t) == Panic(t.abort) /\ NoPull

Goto(frames, res) ==
    stack' = frames /\ result' = res /\ UNCHANGED <<outcome, panic, returned>>

\* `result = self.stateN(..)`: this activation waits in its loop for callee.
Call(callee) ==
    Goto(Callers \o <<[Top EXCEPT !.pc = "loop"], callee>>, <<>>)

\* `self.stateN(..)` in tail position: the callee's result is this one's.
Become(callee) == Goto(Callers \o <<callee>>, <<>>)

\* `(token, nonterminal)` is returned to the caller.
Return(tok, nonterminal) ==
    Goto(Callers, <<[token |-> tok, nonterminal |-> nonterminal]>>)

\* `break (token, nonterminal)` with the pair the callee returned.
Break == Goto(Callers, result)

Frame(f) == [fn |-> f, pc |-> "call"]

\* The six arms shared by state0, state7, state16 and state19: the state
\* function a token that starts a value leads to.  `&mut Some(())` is the
\* left_bracket flag of the new state16 activation.
ValueStartKindsNoNull == {"String", "Number", "Bool", "LeftBrace", "LeftBracket"}

ValueStartKinds == {"String", "Number", "Bool", "Null", "LeftBrace", "LeftBracket"}

ValueStart(t) ==
    CASE t.kind = "String"      -> [fn |-> "state1", pc |-> "call", string |-> t.val]
      [] t.kind = "Number"      -> [fn |-> "state2", pc |-> "call", number |-> t.val]
      [] t.kind = "Bool"        -> [fn |-> "state3", pc |-> "call", bool_ |-> t.val]
      [] t.kind = "Null"        -> [fn |-> "state4", pc |-> "call"]
      [] t.kind = "LeftBrace"   -> [fn |-> "state5", pc |-> "call"]
      [] t.kind = "LeftBracket" -> [fn |-> "state16", pc |-> "call",
                                    left_bracket |-> TRUE]

Static == UNCHANGED <<buffer, overflow_checks>>

(***************************************************************************)
(* Parse::value and the state functions.  A state function with a goto     *)
(* loop is two actions: its body up to the first call (stateN) and one     *)
(* turn of its loop (stateN_loop).                                         *)
(***************************************************************************)

\* Parse::value, line 41-42: pull the first token and call state0.
value ==
    /\ At("value") /\ Static
    /\ \E t \in {NextToken} :
       IF t.abort # "none" THEN LexPanic(t)
       ELSE Pulled(t) /\ Call([fn |-> "state0", pc |-> "call", token |-> Tok(t)])

\* Two faulty matches: one that does not look at the token state0 returned,
\* one that takes an Error token for the end of the input.
value_result_any_lookahead(r) ==
    IF r.nonterminal.nt = "Value"
    THEN [tag |-> "Ok", value |-> r.nonterminal.v]
    ELSE [tag |-> "Err", value |-> Unit]

value_result_error_lookahead(r) ==
    IF r.token.kind \in {"End", "Error"} /\ r.nonterminal.nt = "Value"
    THEN [tag |-> "Ok", value |-> r.nonterminal.v]
    ELSE [tag |-> "Err", value |-> Unit]

\* Parse::value, line 43-44: the match on what state0 returned.
value_result(r) ==
    IF r.token.kind = "End" /\ r.nonterminal.nt = "Value"
    THEN [tag |-> "Ok", value |-> r.nonterminal.v]
    ELSE [tag |-> "Err", value |-> Unit]

value_return ==
    /\ InLoop("value") /\ Static /\ NoPull
    /\ outcome' = value_result(result[1]).tag
    /\ returned' = value_result(result[1]).value
    /\ stack' = <<>> /\ result' = <<>> /\ UNCHANGED panic

state0 ==
    /\ At("state0") /\ Static /\ NoPull
    /\ IF Top.token.kind \in ValueStartKinds
       THEN Call(ValueStart(Top.token))
       ELSE Panic("unexpected token")

\* `value = object *` and `value = array *`: the reductions every goto loop
\* over a value shares.
Reduce15(r) == [fn |-> "state15", pc |-> "call", token |-> r.token,
                object |-> r.nonterminal.v]

Reduce23(r) == [fn |-> "state23", pc |-> "call", token |-> r.token,
                array |-> r.nonterminal.v]

\* A faulty loop whose `break` hands back the token state0 was called with
\* in place of the one its callee returned.
state0_loop_stale_token ==
    /\ InLoop("state0") /\ Static /\ NoPull
    /\ LET r == result[1] IN
       IF r.nonterminal.nt = "Object" THEN Call(Reduce15(r))
       ELSE IF r.nonterminal.nt = "Array" THEN Call(Reduce23(r))
       ELSE Goto(Callers, <<[r EXCEPT !.token = Top.token]>>)

state0_loop ==
    /\ InLoop("state0") /\ Static /\ NoPull
    /\ LET r == result[1] IN
       IF r.nonterminal.nt = "Object" THEN Call(Reduce15(r))
       ELSE IF r.nonterminal.nt = "Array" THEN Call(Reduce23(r))
       ELSE Break

state1 ==
    /\ At("state1") /\ Static
    /\ \E t \in {NextToken} :
       IF t.abort # "none" THEN LexPanic(t)
       ELSE Pulled(t)
            /\ Return(Tok(t), Nonterminal("Value", Value("String", Top.string)))

state2 ==
    /\ At("state2") /\ Static
    /\ \E t \in {NextToken} :
       IF t.abort # "none" THEN LexPanic(t)
       ELSE Pulled(t)
            /\ Return(Tok(t), Nonterminal("Value", Value("Number", Top.number)))

state3 ==
    /\ At("state3") /\ Static
    /\ \E t \in {NextToken} :
       IF t.abort # "none" THEN LexPanic(t)
       ELSE Pulled(t)
            /\ Return(Tok(t), Nonterminal("Value", Value("Bool", Top.bool_)))

state4 ==
    /\ At("state4") /\ Static
    /\ \E t \in {NextToken} :
       IF t.abort # "none" THEN LexPanic(t)
       ELSE Pulled(t)
            /\ Return(Tok(t), Nonterminal("Value", Value("Null", Unit)))

state5 ==
    /\ At("state5") /\ Static
    /\ \E t \in {NextToken} :
       IF t.abort # "none" THEN LexPanic(t)
       ELSE Pulled(t)
            /\ IF t.kind = "String"
               THEN Call([fn |-> "state6", pc |-> "call", string |-> t.val])
               ELSE IF t.kind = "RightBrace" THEN Call(Frame("state14"))
               ELSE Panic("unexpected token")

state5_loop ==
    /\ InLoop("state5") /\ Static /\ NoPull
    /\ LET r == result[1] IN
       IF r.nonterminal.nt = "Pair"
       THEN Call([fn |-> "state9", pc |-> "call", token |-> r.token,
                  pair |-> r.nonterminal.v])
       ELSE IF r.nonterminal.nt = "Pairs"
       THEN Call([fn |-> "state10", pc |-> "call", token |-> r.token,
                  object |-> r.nonterminal.v])
       ELSE Break

state6 ==
    /\ At("state6") /\ Static
    /\ \E t \in {NextToken} :
       IF t.abort # "none" THEN LexPanic(t)
       ELSE Pulled(t)
            /\ IF t.kind = "Colon"
               THEN Become([fn |-> "state7", pc |-> "call", string |-> Top.string])
               ELSE Panic("unexpected token")

state7 ==
    /\ At("state7") /\ Static
    /\ \E t \in {NextToken} :
       IF t.abort # "none" THEN LexPanic(t)
       ELSE Pulled(t)
            /\ IF t.kind \in ValueStartKinds
               THEN Call(ValueStart(Tok(t)))
               ELSE Panic("unexpected token")

\* A faulty loop that lacks the arm `Nonterminal::Object(object)`.
state7_loop_no_object ==
    /\ InLoop("state7") /\ Static /\ NoPull
    /\ LET r == result[1] IN
       IF r.nonterminal.nt = "Array" THEN Call(Reduce23(r))
       ELSE IF r.nonterminal.nt = "Value"
       THEN Become([fn |-> "state8", pc |-> "call", token |-> r.token,
                    string |-> Top.string, value |-> r.nonterminal.v])
       ELSE Break

state7_loop ==
    /\ InLoop("state7") /\ Static /\ NoPull
    /\ LET r == result[1] IN
       IF r.nonterminal.nt = "Object" THEN Call(Reduce15(r))
       ELSE IF r.nonterminal.nt = "Array" THEN Call(Reduce23(r))
       ELSE IF r.nonterminal.nt = "Value"
       THEN Become([fn |-> "state8", pc |-> "call", token |-> r.token,
                    string |-> Top.string, value |-> r.nonterminal.v])
       ELSE Break

state8 ==
    /\ At("state8") /\ Static /\ NoPull
    /\ Return(Top.token, Nonterminal("Pair", <<Top.string, Top.value>>))

state9 ==
    /\ At("state9") /\ Static /\ NoPull
    /\ Return(Top.token,
              Nonterminal("Pairs", Insert(NewObject, Top.pair[1], Top.pair[2])))

state10 ==
    /\ At("state10") /\ Static /\ NoPull
    /\ IF Top.token.kind = "Comma"
       THEN Become([fn |-> "state11", pc |-> "call", object |-> Top.object])
       ELSE IF Top.token.kind = "RightBrace"
       THEN Become([fn |-> "state13", pc |-> "call", object |-> Top.object])
       ELSE Panic("unexpected token")

state11 ==
    /\ At("state11") /\ Static
    /\ \E t \in {NextToken} :
       IF t.abort # "none" THEN LexPanic(t)
       ELSE Pulled(t)
            /\ IF t.kind = "String"
               THEN Call([fn |-> "state6", pc |-> "call", string |-> t.val])
               ELSE Panic("unexpected token")

state11_loop ==
    /\ InLoop("state11") /\ Static /\ NoPull
    /\ LET r == result[1] IN
       IF r.nonterminal.nt = "Pair"
       THEN Become([fn |-> "state12", pc |-> "call", token |-> r.token,
                    object |-> Top.object, pair |-> r.nonterminal.v])
       ELSE Break

state12 ==
    /\ At("state12") /\ Static /\ NoPull
    /\ Return(Top.token,
              Nonterminal("Pairs", Insert(Top.object, Top.pair[1], Top.pair[2])))

state13 ==
    /\ At("state13") /\ Static
    /\ \E t \in {NextToken} :
       IF t.abort # "none" THEN LexPanic(t)
       ELSE Pulled(t) /\ Return(Tok(t), Nonterminal("Object", Top.object))

state14 ==
    /\ At("state14") /\ Static
    /\ \E t \in {NextToken} :
       IF t.abort # "none" THEN LexPanic(t)
       ELSE Pulled(t) /\ Return(Tok(t), Nonterminal("Object", NewObject))

state15 ==
    /\ At("state15") /\ Static /\ NoPull
    /\ Return(Top.token, Nonterminal("Value", Value("Object", Top.object)))

\* `left_bracket` is a reference to the flag the caller of state16 made with
\* `&mut Some(())`: the flag is the field left_bracket of the state16
\* activation (TRUE for Some), and state18, state21 and state22 hold its
\* place in the stack (lb).
state16 ==
    /\ At("state16") /\ Static
    /\ \E t \in {NextToken} :
       IF t.abort # "none" THEN LexPanic(t)
       ELSE Pulled(t)
            /\ IF t.kind \in ValueStartKinds
               THEN Call(ValueStart(Tok(t)))
               ELSE IF t.kind = "RightBracket"
               THEN Call([fn |-> "state22", pc |-> "call", lb |-> Len(stack)])
               ELSE Panic("unexpected token")

state16_loop ==
    /\ InLoop("state16") /\ Static /\ NoPull
    /\ LET r == result[1] IN
       IF ~Top.left_bracket THEN Break
       ELSE IF r.nonterminal.nt = "Object" THEN Call(Reduce15(r))
       ELSE IF r.nonterminal.nt = "Array" THEN Call(Reduce23(r))
       ELSE IF r.nonterminal.nt = "Value"
       THEN Call([fn |-> "state17", pc |-> "call", token |-> r.token,
                  value |-> r.nonterminal.v])
       ELSE IF r.nonterminal.nt = "Elements"
       THEN Call([fn |-> "state18", pc |-> "call", token |-> r.token,
                  lb |-> Len(stack), array |-> r.nonterminal.v])
       ELSE Break

state17 ==
    /\ At("state17") /\ Static /\ NoPull
    /\ Return(Top.token, Nonterminal("Elements", Push(NewArray, Top.value)))

\* A faulty state18 that skips a token it does not accept and goes on with
\* the next element.
state18_skips_unexpected ==
    /\ At("state18") /\ Static /\ NoPull
    /\ IF Top.token.kind = "RightBracket"
       THEN Become([fn |-> "state21", pc |-> "call", lb |-> Top.lb,
                    array |-> Top.array])
       ELSE Become([fn |-> "state19", pc |-> "call", array |-> Top.array])

state18 ==
    /\ At("state18") /\ Static /\ NoPull
    /\ IF Top.token.kind = "Comma"
       THEN Become([fn |-> "state19", pc |-> "call", array |-> Top.array])
       ELSE IF Top.token.kind = "RightBracket"
       THEN Become([fn |-> "state21", pc |-> "call", lb |-> Top.lb,
                    array |-> Top.array])
       ELSE Panic("unexpected token")

state19 ==
    /\ At("state19") /\ Static
    /\ \E t \in {NextToken} :
       IF t.abort # "none" THEN LexPanic(t)
       ELSE Pulled(t)
            /\ IF t.kind \in ValueStartKinds
               THEN Call(ValueStart(Tok(t)))
               ELSE Panic("unexpected token")

state19_loop ==
    /\ InLoop("state19") /\ Static /\ NoPull
    /\ LET r == result[1] IN
       IF r.nonterminal.nt = "Object" THEN Call(Reduce15(r))
       ELSE IF r.nonterminal.nt = "Array" THEN Call(Reduce23(r))
       ELSE IF r.nonterminal.nt = "Value"
       THEN Become([fn |-> "state20", pc |-> "call", token |-> r.token,
                    array |-> Top.array, value |-> r.nonterminal.v])
       ELSE Break

state20 ==
    /\ At("state20") /\ Static /\ NoPull
    /\ Return(Top.token, Nonterminal("Elements", Push(Top.array, Top.value)))

\* A faulty `left_bracket.unwrap()` that leaves the flag as it is.
TakeUnwrapKeepsFlag(lb, tok, array) ==
    IF ~stack[lb].left_bracket THEN Panic("unwrap on None")
    ELSE Goto(Callers,
              <<[token |-> tok, nonterminal |-> Nonterminal("Array", array)]>>)

\* `left_bracket.take().unwrap()` on the flag at stack[lb], after the pull.
TakeUnwrap(lb, tok, array) ==
    IF ~stack[lb].left_bracket THEN Panic("unwrap on None")
    ELSE Goto([Callers EXCEPT ![lb].left_bracket = FALSE],
              <<[token |-> tok, nonterminal |-> Nonterminal("Array", array)]>>)

state21 ==
    /\ At("state21") /\ Static
    /\ \E t \in {NextToken} :
       IF t.abort # "none" THEN LexPanic(t)
       ELSE Pulled(t) /\ TakeUnwrap(Top.lb, Tok(t), Top.array)

state22 ==
    /\ At("state22") /\ Static
    /\ \E t \in {NextToken} :
       IF t.abort # "none" THEN LexPanic(t)
       ELSE Pulled(t) /\ TakeUnwrap(Top.lb, Tok(t), NewArray)

state23 ==
    /\ At("state23") /\ Static /\ NoPull
    /\ Return(Top.token, Nonterminal("Value", Value("Array", Top.array)))

(***************************************************************************)
(* A client that only calls Lex::token, again and again.                   *)
(***************************************************************************)

\* How many calls the client makes after the one that returned End.
MaxCallsPastEnd == 2

EndSeen == \E i \in 1..Len(emitted) : emitted[i].kind = "End"

CallsPastEnd ==
    Cardinality({i \in 1..Len(emitted) : emitted[i].kind = "End"}) - 1

lex_token ==
    /\ outcome = "lexing" /\ Static
    /\ CallsPastEnd < MaxCallsPastEnd
    /\ \E t \in {NextToken} :
       IF t.abort # "none"
       THEN LexPanic(t)
       ELSE Pulled(t) /\ UNCHANGED <<stack, result, outcome, panic, returned>>

(***************************************************************************)
(* The buffers the model is run on.  A document is a sequence of lexemes   *)
(* (the text of one token each); a buffer is its lexemes joined.           *)
(***************************************************************************)

Lx == [lbrace |-> <<123>>, rbrace |-> <<125>>, lbracket |-> <<91>>,
       rbracket |-> <<93>>, colon |-> <<58>>, comma |-> <<44>>,
       a |-> <<34, 97, 34>>, b |-> <<34, 98, 34>>,
       one |-> <<49>>, two |-> <<50>>,
       true |-> TrueLit, false |-> FalseLit, null |-> NullLit,
       junk |-> <<120>>]

\* The lexemes joined with sep between them.
RECURSIVE Join(_, _)
Join(doc, sep) ==
    IF doc = <<>> THEN <<>>
    ELSE IF Len(doc) = 1 THEN doc[1]
    ELSE doc[1] \o sep \o Join(Tail(doc), sep)

\* All sequences of at most n elements of S.
SeqsUpTo(S, n) == UNION {[1..k -> S] : k \in 0..n}

\* Bounds of the buffers.
MaxLexemes == 4

MaxPairs == 3

MaxElements == 3

MaxDepth == 2

\* Every sequence of at most MaxLexemes lexemes, well formed or not.
BruteLexemes ==
    {Lx.lbrace, Lx.rbrace, Lx.lbracket, Lx.rbracket, Lx.colon, Lx.comma,
     Lx.a, Lx.one, Lx.junk}

BruteDocs == SeqsUpTo(BruteLexemes, MaxLexemes)

\* `[ e1 , e2 , .. ]` and `{ k1 : v1 , k2 : v2 , .. }` over documents.
RECURSIVE Commas(_)
Commas(docs) ==
    IF docs = <<>> THEN <<>>
    ELSE IF Len(docs) = 1 THEN docs[1]
    ELSE docs[1] \o <<Lx.comma>> \o Commas(Tail(docs))

ArrayDoc(elements) == <<Lx.lbracket>> \o Commas(elements) \o <<Lx.rbracket>>

ObjectDoc(pairs) ==
    <<Lx.lbrace>>
    \o Commas([i \in 1..Len(pairs) |-> <<pairs[i][1], Lx.colon>> \o pairs[i][2]])
    \o <<Lx.rbrace>>

LeafDocs == {<<l>> : l \in {Lx.a, Lx.one, Lx.two, Lx.true, Lx.false, Lx.null}}

\* Objects of at most MaxPairs pairs over two keys (so keys repeat).
FlatObjects ==
    {ObjectDoc(ps) :
        ps \in SeqsUpTo({Lx.a, Lx.b} \X {<<Lx.one>>, <<Lx.two>>}, MaxPairs)}

\* Arrays of at most MaxElements leaves.
FlatArrays ==
    {ArrayDoc(es) : es \in SeqsUpTo({<<Lx.one>>, <<Lx.two>>, <<Lx.a>>}, MaxElements)}

\* Containers around a document: arrays in objects, objects in arrays.
Wraps(d) ==
    {ArrayDoc(<<d>>),
     ArrayDoc(<<<<Lx.one>>, d>>),
     ArrayDoc(<<d, <<Lx.two>>>>),
     ObjectDoc(<<<<Lx.a, d>>>>),
     ObjectDoc(<<<<Lx.a, <<Lx.one>>>>, <<Lx.b, d>>>>),
     ObjectDoc(<<<<Lx.a, d>>, <<Lx.a, <<Lx.two>>>>>>)}

CoreDocs == {<<Lx.one>>, ArrayDoc(<<>>), ObjectDoc(<<>>)}

RECURSIVE Nested(_)
Nested(depth) ==
    IF depth = 0 THEN CoreDocs
    ELSE LET inner == Nested(depth - 1)
         IN  inner \cup UNION {Wraps(d) : d \in inner}

ValidDocs == LeafDocs \cup FlatObjects \cup FlatArrays \cup Nested(MaxDepth)

\* Documents with one thing wrong: a lexeme replaced, the tail cut off, or a
\* lexeme too many.
BreakLexemes == {Lx.junk, Lx.comma, Lx.rbracket, Lx.rbrace, Lx.true}

BreakableDocs == LeafDocs \cup Nested(1)

BrokenDocs ==
    UNION {
        {[d EXCEPT ![i] = l] : i \in 1..Len(d), l \in BreakLexemes}
        \cup {SubSeq(d, 1, i) : i \in 0..(Len(d) - 1)}
        \cup {Append(d, l) : l \in BreakLexemes \cup {Lx.false, Lx.one}}
      : d \in BreakableDocs}

\* The text between two lexemes: nothing where none is needed, or whitespace.
Separators == {<<32>>, <<10>>, <<9, 13>>}

\* Lexemes that overflow an integer of the lexer: `"\uGGGG"` (the u16 of
\* code_unit), `1e2147483648` (the i32 explicit_exponent) and a run of 21
\* nines (the u64 significand).
BadEscape == <<34, 92, 117, 71, 71, 71, 71, 34>>

HugeExponent == <<49, 101, 50, 49, 52, 55, 52, 56, 51, 54, 52, 56>>

HugeSignificand == [i \in 1..21 |-> 57]

OverflowDocs ==
    UNION {{<<l>>, <<Lx.true, l>>, ArrayDoc(<<<<Lx.one>>, <<l>>>>),
            ObjectDoc(<<<<Lx.a, <<l>>>>>>),
            <<Lx.one, Lx.comma, l>>,
            <<Lx.lbracket, Lx.one, Lx.junk, l>>,
            <<Lx.lbrace, Lx.a, Lx.colon, Lx.one, Lx.junk, l>>}
           : l \in {BadEscape, HugeExponent, HugeSignificand}}

ParserInputs ==
    {Join(d, <<>>) : d \in BruteDocs \cup ValidDocs}
    \cup {Join(d, <<32>>) : d \in BrokenDocs \cup OverflowDocs}
    \cup {sep \o Join(d, sep) \o sep : d \in Nested(1), sep \in Separators}

\* The buffers of the client that only lexes: every string of at most
\* MaxChars characters of LexChars (valid UTF-8, garbage or not), every
\* `"\uXXXX"` over HexSample, runs of up to MaxDigits digits in each part of
\* a number, the numbers at the edges of u64 and i32, and some documents.
LexChars ==
    {<<32>>, <<34>>, <<92>>, <<49>>, <<45>>, <<46>>, <<123>>, <<195, 169>>}

MaxChars == 4

RECURSIVE Concat(_)
Concat(chars) == IF chars = <<>> THEN <<>> ELSE chars[1] \o Concat(Tail(chars))

GarbageBuffers == {Concat(cs) : cs \in SeqsUpTo(LexChars, MaxChars)}

HexSample == {48, 56, 70, 71, 100, 122}

EscapeBuffers == {<<34, 92, 117>> \o h \o <<34>> : h \in [1..4 -> HexSample]}

MaxDigits == 21

NumberPrefixes ==
    {<<>>, <<45>>, <<48, 46>>, <<49, 101>>, <<49, 101, 45>>, <<49, 46, 53, 101, 45>>}

DigitBuffers ==
    {pre \o [i \in 1..k |-> d] :
        pre \in NumberPrefixes, d \in {49, 57}, k \in 1..MaxDigits}

EdgeNumbers ==
    {<<49, 56, 52, 52, 54, 55, 52, 52, 48, 55, 51, 55, 48, 57, 53, 53, 49, 54, 49, 53>>,
     <<49, 56, 52, 52, 54, 55, 52, 52, 48, 55, 51, 55, 48, 57, 53, 53, 49, 54, 49, 54>>,
     <<49, 101, 50, 49, 52, 55, 52, 56, 51, 54, 52, 55>>,
     HugeExponent,
     <<49, 46, 53, 101, 45, 50, 49, 52, 55, 52, 56, 51, 54, 52, 55>>}

\* Strings of `\u` escapes: a high surrogate and a low one; a high surrogate
\* and something else (nothing, a letter, an escape that is no low
\* surrogate or is cut short); a low surrogate alone; an escape cut short by
\* the closing quote.
HighUnits ==
    {<<d1, d2, d3, d4>> :
        d1 \in {100, 68}, d2 \in {56, 57, 97, 66}, d3 \in {48, 51, 102},
        d4 \in {48, 100, 70}}

LowUnits ==
    {<<100, d2, d3, d4>> : d2 \in {99, 68, 101, 70}, d3 \in {48, 102}, d4 \in {48, 70}}

Quoted(bytes) == <<34>> \o bytes \o <<34>>

Escape(unit) == <<92, 117>> \o unit

PairBuffers ==
    {Quoted(Escape(h) \o Escape(l)) : h \in HighUnits, l \in LowUnits}

\* What follows the high surrogate: 0041, d800, dbG0, 00G0, zzzz and FFFG
\* as escapes, `\u00` and `\u`, `\n`, the letter x, nothing.
Followers ==
    {Escape(<<48, 48, 52, 49>>), Escape(<<100, 56, 48, 48>>),
     Escape(<<100, 98, 71, 48>>), Escape(<<48, 48, 71, 48>>),
     Escape(<<122, 122, 122, 122>>), Escape(<<70, 70, 70, 71>>),
     Escape(<<48, 48>>), Escape(<<>>), <<92, 110>>, <<120>>, <<>>}

UnpairedBuffers ==
    {Quoted(Escape(h) \o f) :
        h \in {<<100, 56, 48, 48>>, <<68, 66, 70, 70>>, <<100, 56, 51, 100>>},
        f \in Followers}
    \cup {Quoted(Escape(l)) : l \in LowUnits}
    \cup {Quoted(Escape(SubSeq(<<49, 97, 70>>, 1, k)) \o f) :
              k \in 0..3, f \in {<<>>, <<32, 120>>}}

\* The strings of EscapeBuffers without their closing quote.
UnclosedBuffers == {SubSeq(b, 1, Len(b) - 1) : b \in EscapeBuffers}

\* Every buffer of up to MaxNumberChars of the bytes `0 1 - + . e`, and some
\* exponents written with `E`.
NumberChars == {48, 49, 45, 43, 46, 101}

MaxNumberChars == 5

NumberBuffers == SeqsUpTo(NumberChars, MaxNumberChars)

UpperExponents == {<<49, 69>> \o t \o u : t \in SeqsUpTo({43, 45, 49}, 2), u \in {<<>>, <<32, 48>>}}

\* Up to MaxWords of the keywords, their prefixes, a letter, a space and a
\* comma, written one after the other.
Words == {TrueLit, FalseLit, NullLit, <<116, 114, 117>>, <<110, 117, 108>>,
          <<120>>, <<32>>, <<44>>}

MaxWords == 3

WordBuffers == {Concat(ws) : ws \in SeqsUpTo(Words, MaxWords)}

\* Up to three of tab, LF, form feed, CR, space and `1`.
BlankBuffers == SeqsUpTo({9, 10, 12, 13, 32, 49}, 3)

\* A quote, then up to three of NUL, tab, 0x1F, `"`, `/`, `\`, `n` and `x`,
\* closed by a quote or not.
RawStrings ==
    {<<34>> \o t \o c :
        t \in SeqsUpTo({0, 9, 31, 34, 47, 92, 110, 120}, 3), c \in {<<>>, <<34>>}}

LexInputs ==
    GarbageBuffers \cup EscapeBuffers \cup DigitBuffers \cup EdgeNumbers
    \cup {Join(d, <<32>>) : d \in Nested(1)}
    \cup PairBuffers \cup UnpairedBuffers \cup UnclosedBuffers
    \cup NumberBuffers \cup UpperExponents \cup WordBuffers
    \cup BlankBuffers \cup RawStrings

(***************************************************************************)
(* Parse::new(source) followed by Parse::value().                          *)
(***************************************************************************)
Init ==
    /\ buffer \in ParserInputs
    /\ overflow_checks \in BOOLEAN
    /\ cursor = 0
    /\ emitted = <<>>
    /\ stack = <<Frame("value")>>
    /\ result = <<>>
    /\ outcome = "running"
    /\ panic = "none"
    /\ returned = Unit

Next ==
    \/ value \/ value_return
    \/ state0 \/ state0_loop
    \/ state1 \/ state2 \/ state3 \/ state4
    \/ state5 \/ state5_loop
    \/ state6
    \/ state7 \/ state7_loop
    \/ state8 \/ state9 \/ state10
    \/ state11 \/ state11_loop
    \/ state12 \/ state13 \/ state14 \/ state15
    \/ state16 \/ state16_loop
    \/ state17 \/ state18
    \/ state19 \/ state19_loop
    \/ state20 \/ state21 \/ state22 \/ state23

Spec == Init /\ [][Next]_vars

(***************************************************************************)
(* Lex::new(source) followed by calls of Lex::token only.                  *)
(***************************************************************************)
InitLex ==
    /\ buffer \in LexInputs
    /\ overflow_checks \in BOOLEAN
    /\ cursor = 0
    /\ emitted = <<>>
    /\ stack = <<>>
    /\ result = <<>>
    /\ outcome = "lexing"
    /\ panic = "none"
    /\ returned = Unit

NextLex == lex_token

SpecLex == InitLex /\ [][NextLex]_vars

(***************************************************************************)
(* The grammar of the parser (the comment on Nonterminal), read as a       *)
(* recursive descent over a token sequence.  A derivation keeps an object  *)
(* as the sequence of its pairs <<key, derivation>> in the order of the    *)
(* text, and an array as the sequence of its elements.                     *)
(***************************************************************************)

KindAt(toks, i) == IF i \in 1..Len(toks) THEN toks[i].kind ELSE "None"

Derived(tree, next) == [ok |-> TRUE, tree |-> tree, next |-> next]

NotDerived == [ok |-> FALSE, tree |-> Unit, next |-> 0]

RECURSIVE Derive(_, _)
RECURSIVE DerivePairs(_, _, _)
RECURSIVE DeriveElements(_, _, _)

\* pair = STRING ':' value, then `,` and more pairs or the closing `}`;
\* d is the derivation of the value of the pair.
AfterPair(toks, key, pairs, d) ==
    IF ~d.ok THEN NotDerived
    ELSE IF KindAt(toks, d.next) = "Comma"
    THEN DerivePairs(toks, d.next + 1, Append(pairs, <<key, d.tree>>))
    ELSE IF KindAt(toks, d.next) = "RightBrace"
    THEN Derived([t |-> "Object", v |-> Append(pairs, <<key, d.tree>>)], d.next + 1)
    ELSE NotDerived

\* pairs = pair | pairs ',' pair, from token i on, after the pairs read.
DerivePairs(toks, i, pairs) ==
    IF KindAt(toks, i) = "String" /\ KindAt(toks, i + 1) = "Colon"
    THEN AfterPair(toks, toks[i].val, pairs, Derive(toks, i + 2))
    ELSE NotDerived

\* An element, then `,` and more elements or the closing `]`.
AfterElement(toks, elements, d) ==
    IF ~d.ok THEN NotDerived
    ELSE IF KindAt(toks, d.next) = "Comma"
    THEN DeriveElements(toks, d.next + 1, Append(elements, d.tree))
    ELSE IF KindAt(toks, d.next) = "RightBracket"
    THEN Derived([t |-> "Array", v |-> Append(elements, d.tree)], d.next + 1)
    ELSE NotDerived

\* elements = value | elements ',' value, from token i on.
DeriveElements(toks, i, elements) ==
    AfterElement(toks, elements, Derive(toks, i))

\* value = STRING | NUMBER | BOOL | NULL | object | array, from token i on:
\* the derivation and the index of the token after it.
Derive(toks, i) ==
    IF KindAt(toks, i) \in {"String", "Number", "Bool", "Null"}
    THEN Derived([t |-> toks[i].kind, v |-> toks[i].val], i + 1)
    ELSE IF KindAt(toks, i) = "LeftBrace"
    THEN IF KindAt(toks, i + 1) = "RightBrace"
         THEN Derived([t |-> "Object", v |-> <<>>], i + 2)
         ELSE DerivePairs(toks, i + 1, <<>>)
    ELSE IF KindAt(toks, i) = "LeftBracket"
    THEN IF KindAt(toks, i + 1) = "RightBracket"
         THEN Derived([t |-> "Array", v |-> <<>>], i + 2)
         ELSE DeriveElements(toks, i + 1, <<>>)
    ELSE NotDerived

\* The tokens are one value followed immediately by End, and nothing else.
WholeValue(toks, d) == d.ok /\ d.next = Len(toks) /\ KindAt(toks, d.next) = "End"

InLanguage(toks) == WholeValue(toks, Derive(toks, 1))

\* The tokens Lex::token returns on s from p on, up to and including End;
\* the sequence stops short of End where a call panics.
RECURSIVE TokensFrom(_, _, _)
TokensAfter(s, checks, t) ==
    IF t.abort # "none" THEN <<>>
    ELSE IF t.kind = "End" THEN <<Tok(t)>>
    ELSE <<Tok(t)>> \o TokensFrom(s, t.end, checks)

TokensFrom(s, p, checks) == TokensAfter(s, checks, token(s, p, checks))

TokensOf == TokensFrom(buffer, 0, overflow_checks)

\* Every call of the lexer on the buffer returns, the last one with End.
Lexes == KindAt(TokensOf, Len(TokensOf)) = "End"

\* The buffer is a document of the grammar, and its derivation.
Accepted == InLanguage(TokensOf)

Document == Derive(TokensOf, 1).tree

\* The index of the last pair of the object that has the key.
LastOccurrence(pairs, key) ==
    CHOOSE m \in DOMAIN pairs :
        /\ pairs[m][1] = key
        /\ \A n \in DOMAIN pairs : pairs[n][1] = key => n <= m

\* The json::Value a derivation stands for: an object has the keys of its
\* pairs, each with the value of the last pair that has the key; an array
\* has its elements in the order of the text.
RECURSIVE Denote(_)
Denote(tree) ==
    IF tree.t = "Object"
    THEN Value("Object",
               [key \in {tree.v[k][1] : k \in DOMAIN tree.v} |->
                   Denote(tree.v[LastOccurrence(tree.v, key)][2])])
    ELSE IF tree.t = "Array"
    THEN Value("Array", [i \in DOMAIN tree.v |-> Denote(tree.v[i])])
    ELSE Value(tree.t, tree.v)

\* Some object of the derivation has the same key twice.
RECURSIVE DuplicateKey(_)
DuplicateKey(tree) ==
    IF tree.t = "Object"
    THEN \/ \E k, m \in DOMAIN tree.v : k < m /\ tree.v[k][1] = tree.v[m][1]
         \/ \E k \in DOMAIN tree.v : DuplicateKey(tree.v[k][2])
    ELSE IF tree.t = "Array"
    THEN \E k \in DOMAIN tree.v : DuplicateKey(tree.v[k])
    ELSE FALSE

\* Parse::value is over: it returned, or it panicked.
Finished == outcome \in {"Ok", "Err", "panic"}

\* The literal that opens with token kind `open` and whose last token is the
\* one before the lookahead (the last token pulled).
ClosedLiterals(open) ==
    {i \in 1..Len(emitted) :
        /\ emitted[i].kind = open
        /\ Derive(emitted, i).ok
        /\ Derive(emitted, i).next = Len(emitted)}

\* A state function has just returned the nonterminal nt.
Reduced(nt) == result # <<>> /\ result[1].nonterminal.nt = nt

(***************************************************************************)
(* Properties of Parse::value (specification Spec).                        *)
(***************************************************************************)

\* C1: soundness.  Whenever Parse::value returns Ok(v), the tokens of the
\* whole buffer, up to and including End, are one derivation of `value`
\* followed immediately by End; a buffer outside the language never gives Ok.
Soundness == outcome = "Ok" => Accepted /\ returned.t \in
                 {"String", "Number", "Bool", "Null", "Object", "Array"}

\* Ok was returned for an array that holds an object.
SoundnessWitness ==
    /\ outcome = "Ok" /\ returned.t = "Array"
    /\ \E i \in DOMAIN returned.v : returned.v[i].t = "Object"

\* C2: completeness.  For every buffer whose tokens are a derivation of
\* `value` followed by End, Parse::value ends with Ok and the value returned
\* is the one the derivation stands for (leaves with the payloads of their
\* tokens, containers nested as in the text).
Completeness ==
    (Finished /\ Accepted) => outcome = "Ok" /\ returned = Denote(Document)

\* Ok for an object, written with whitespace between its tokens, that holds
\* an array under one of its keys.
CompletenessWitness ==
    /\ outcome = "Ok" /\ returned.t = "Object"
    /\ \E i \in DOMAIN buffer : buffer[i] \in Whitespace
    /\ \E key \in DOMAIN returned.v : returned.v[key].t = "Array"

\* C3: every buffer that is not one JSON value is answered with a returned
\* error: once Parse::value is over on a buffer the lexer tokenizes and the
\* grammar rejects, the outcome is Err, never a panic.
RejectedIsReturned == (Finished /\ Lexes /\ ~Accepted) => outcome = "Err"

\* C4: the error Parse::value returns carries the kind and the byte span of
\* the first unexpected token, the last token pulled.
ErrorCarriesToken ==
    outcome = "Err" =>
        /\ DOMAIN returned = {"kind", "start", "end"}
        /\ returned.kind = emitted[Len(emitted)].kind
        /\ returned.start = emitted[Len(emitted)].start
        /\ returned.end = emitted[Len(emitted)].end

\* C5: the trailing-token rule.  When Parse::value is over and the tokens
\* pulled begin with a complete value and a further token, that further token
\* is the only one pulled after the value, the outcome is Ok if it is End and
\* Err otherwise, and Err comes with no Value.
TrailingTokenChecked(d) ==
    (d.ok /\ d.next <= Len(emitted)) =>
        /\ d.next = Len(emitted)
        /\ outcome = (IF emitted[d.next].kind = "End" THEN "Ok" ELSE "Err")
        /\ (outcome = "Err" => returned = Unit)

TrailingTokenRule == Finished => TrailingTokenChecked(Derive(emitted, 1))

\* `true false`: Err after the value `true` and the one further token.
TrailingTokenWitness ==
    /\ outcome = "Err" /\ Len(emitted) = 2
    /\ emitted[1].kind = "Bool" /\ emitted[2].kind = "Bool"

\* C9: last write wins.  The object a state function returns for an object
\* literal has exactly the keys of the literal, each with the value of the
\* last pair that has the key; and a document with a key twice in an object
\* ends with Ok.
LastWriteWinsIn(object, pairs) ==
    /\ DOMAIN object = {pairs[k][1] : k \in DOMAIN pairs}
    /\ \A k \in DOMAIN pairs :
          (\A m \in DOMAIN pairs : m > k => pairs[m][1] # pairs[k][1])
              => object[pairs[k][1]] = Denote(pairs[k][2])

LastWriteWins ==
    /\ Reduced("Object") =>
          \E i \in ClosedLiterals("LeftBrace") :
              LastWriteWinsIn(result[1].nonterminal.v, Derive(emitted, i).tree.v)
    /\ (Finished /\ Accepted /\ DuplicateKey(Document)) => outcome = "Ok"

\* An object literal of three pairs whose third pair repeats the key of the
\* first with another value has been reduced.
LastWriteWinsWitness ==
    /\ Reduced("Object")
    /\ \E i \in ClosedLiterals("LeftBrace") :
          /\ Len(Derive(emitted, i).tree.v) = 3
          /\ Derive(emitted, i).tree.v[3][1] = Derive(emitted, i).tree.v[1][1]
          /\ Derive(emitted, i).tree.v[3][2] # Derive(emitted, i).tree.v[1][2]

\* C10: arrays keep order and count.  The array a state function returns
\* for an array literal of k elements has k entries, entry i being the value
\* of the i-th element of the literal, nested containers included.
SameElements(array, elements) ==
    /\ Len(array) = Len(elements)
    /\ \A k \in DOMAIN elements : array[k] = Denote(elements[k])

ArraysKeepOrder ==
    Reduced("Array") =>
        \E i \in ClosedLiterals("LeftBracket") :
            SameElements(result[1].nonterminal.v, Derive(emitted, i).tree.v)

\* An array literal of two elements, the second an array that is not empty,
\* has been reduced.
ArraysKeepOrderWitness ==
    /\ Reduced("Array")
    /\ Len(result[1].nonterminal.v) = 2
    /\ result[1].nonterminal.v[2].t = "Array"
    /\ result[1].nonterminal.v[2].v # <<>>
    /\ result[1].nonterminal.v[1].t # "Array"

(***************************************************************************)
(* Properties of Lex::token (specification SpecLex).                       *)
(***************************************************************************)

\* Bytes other than whitespace remain in the slice of the lexer.
BytesRemain == skip_whitespace(buffer, cursor) < Len(buffer)

\* C6: the lexer never fails.  No call of Lex::token panics: the u16 of
\* code_unit, the u64 significand and the i32 exponent stay in range.
LexerNeverAborts == panic = "none"

\* C7: lexer progress.  While bytes other than whitespace remain the lexer
\* can still be called; every call made so far returned a token that starts
\* where the one before ended or later and, unless it is End, spans at least
\* one byte; and the tokens before End are at most as many as the bytes of
\* the buffer.
LexerProgress ==
    /\ BytesRemain => outcome = "lexing"
    /\ \A i \in DOMAIN emitted :
          /\ emitted[i].kind # "End" => emitted[i].end > emitted[i].start
          /\ i > 1 => emitted[i].start >= emitted[i - 1].end
    /\ cursor = (IF emitted = <<>> THEN 0 ELSE emitted[Len(emitted)].end)
    /\ Cardinality({i \in DOMAIN emitted : emitted[i].kind # "End"}) <= Len(buffer)

\* C8: End is absorbing.  A call made after Lex::token has returned End
\* returns End again, with an empty span, and leaves the cursor where it was.
EndIsAbsorbing ==
    [][(emitted # <<>> /\ emitted[Len(emitted)].kind = "End") =>
          /\ Len(emitted') = Len(emitted) + 1
          /\ emitted'[Len(emitted')].kind = "End"
          /\ emitted'[Len(emitted')].start = emitted'[Len(emitted')].end
          /\ cursor' = cursor]_vars

\* MaxCallsPastEnd calls were made after the first End, which came after
\* at least two other tokens.
EndIsAbsorbingWitness ==
    /\ CallsPastEnd = MaxCallsPastEnd
    /\ Len(emitted) >= MaxCallsPastEnd + 3
    /\ emitted[1].kind # "End" /\ emitted[2].kind # "End"

(***************************************************************************)
(* Properties of the strings Lex::token decodes (specification SpecLex).   *)
(***************************************************************************)

\* The hexadecimal digits: 0-9, A-F, a-f.
ValidHexDigit(b) == b \in (48..57) \cup (65..70) \cup (97..102)

\* How many hexadecimal digits, four at most, s has from its byte i on.
RECURSIVE HexRun(_, _, _)
HexRun(s, i, n) ==
    IF n < 4 /\ i <= Len(s) /\ ValidHexDigit(s[i]) THEN HexRun(s, i + 1, n + 1)
    ELSE n

\* U+FFFD in UTF-8.
Replacement == <<239, 191, 189>>

\* The buffer is `"\uXXXX"` for four letters or digits XXXX.
SingleEscape ==
    /\ Len(buffer) = 8
    /\ StartsWith(buffer, 0, <<34, 92, 117>>)
    /\ buffer[8] = 34
    /\ \A i \in 4..7 : buffer[i] \in (48..57) \cup (65..90) \cup (97..122)

\* C11: malformed \u escape.  In the string `"\uXXXX"` with fewer than four
\* hexadecimal digits after `\u`, the escape decodes to U+FFFD and takes
\* only the hexadecimal digits before the first byte that is not one; that
\* byte and what follows it are content of the string.
MalformedEscape ==
    (SingleEscape /\ HexRun(buffer, 4, 0) < 4 /\ emitted # <<>>) =>
        /\ emitted[1].kind = "String"
        /\ emitted[1].val =
              Replacement \o SubSeq(buffer, 4 + HexRun(buffer, 4, 0), 7)

\* The value of a hexadecimal digit, and of the four at s[i..i+3].
HexValue(b) ==
    IF b \in 48..57 THEN b - 48 ELSE IF b \in 65..70 THEN b - 55 ELSE b - 87

FourHex(s, i) ==
    ((HexValue(s[i]) * 16 + HexValue(s[i + 1])) * 16 + HexValue(s[i + 2])) * 16
    + HexValue(s[i + 3])

\* s has `\u` and four hexadecimal digits from its byte i on.
EscapeAt(s, i) ==
    /\ i + 5 <= Len(s)
    /\ s[i] = 92 /\ s[i + 1] = 117
    /\ HexRun(s, i + 2, 0) = 4

\* The buffer is `"\uHHHH\uLLLL"`, HHHH a high surrogate and LLLL a low one.
SurrogatePairBuffer ==
    /\ Len(buffer) = 14 /\ buffer[1] = 34 /\ buffer[14] = 34
    /\ EscapeAt(buffer, 2) /\ EscapeAt(buffer, 8)
    /\ FourHex(buffer, 4) \in 55296..56319
    /\ FourHex(buffer, 10) \in 56320..57343

\* 0x10000 + (((h - 0xD800) << 10) | (l - 0xDC00)): the shifted part has its
\* ten low bits clear and l - 0xDC00 is below 2^10, so the `|` is a sum.
Paired(h, l) == 65536 + (h - 55296) * 1024 + (l - 56320)

\* The UTF-8 bytes of a code point of 0x10000 and more.
FourBytes(cp) ==
    <<240 + (cp \div 262144), 128 + ((cp \div 4096) % 64),
      128 + ((cp \div 64) % 64), 128 + (cp % 64)>>

\* C12: surrogate-pair reassembly.  For a high surrogate h followed at once
\* by `\u` and a low surrogate l, the string holds the one code point
\* 0x10000 + (((h-0xD800)<<10) | (l-0xDC00)), which lies in
\* 0x10000..0x10FFFF and is not U+FFFD; the call does not panic and both
\* escapes, 12 bytes, are consumed.
SurrogatePairs ==
    SurrogatePairBuffer =>
        /\ Paired(FourHex(buffer, 4), FourHex(buffer, 10)) \in 65536..1114111
        /\ panic = "none"
        /\ emitted # <<>> =>
              /\ emitted[1].kind = "String"
              /\ emitted[1].val =
                    FourBytes(Paired(FourHex(buffer, 4), FourHex(buffer, 10)))
              /\ emitted[1].val # Replacement
              /\ emitted[1].start = 0 /\ emitted[1].end = 14

\* `"\udBfF\udFfF"` has been lexed: U+10FFFF, the last code point.
SurrogatePairsWitness ==
    /\ SurrogatePairBuffer /\ emitted # <<>>
    /\ FourHex(buffer, 4) = 56319 /\ FourHex(buffer, 10) = 57343
    /\ emitted[1].val = <<244, 143, 191, 191>>

\* s is letters and digits from its byte i up to a closing quote, its last byte.
PlainTail(s, i) ==
    /\ i <= Len(s) /\ s[Len(s)] = 34
    /\ \A j \in i..(Len(s) - 1) : s[j] \in (48..57) \cup (65..90) \cup (97..122)

\* The buffer opens a string with the escape of a high surrogate.
HighFirst ==
    /\ Len(buffer) >= 8 /\ buffer[1] = 34
    /\ EscapeAt(buffer, 2) /\ FourHex(buffer, 4) \in 55296..56319

\* The escape of a low surrogate follows the first escape.
LowSecond == EscapeAt(buffer, 8) /\ FourHex(buffer, 10) \in 56320..57343

\* The first token is a String of the bytes val.
FirstString(val) == emitted[1].kind = "String" /\ emitted[1].val = val

\* C13: unpaired surrogates are absorbed.  A high surrogate followed by
\* letters or by the closing quote gives one U+FFFD and then those letters;
\* a high surrogate followed by a second `\u` escape that is no low
\* surrogate gives one U+FFFD and nothing for the second escape, whose
\* scanned bytes (`\u` and up to four more) are consumed; a low surrogate
\* alone gives U+FFFD.  The token is a String in each case.
UnpairedSurrogates ==
    emitted # <<>> =>
        /\ (HighFirst /\ PlainTail(buffer, 8)) =>
              FirstString(Replacement \o SubSeq(buffer, 8, Len(buffer) - 1))
        /\ (HighFirst /\ StartsWith(buffer, 7, <<92, 117>>)
                /\ PlainTail(buffer, 10) /\ ~LowSecond) =>
              \E j \in 10..14 :
                  /\ j <= Len(buffer)
                  /\ FirstString(Replacement \o SubSeq(buffer, j, Len(buffer) - 1))
        /\ (Len(buffer) = 8 /\ buffer[1] = 34 /\ buffer[8] = 34
                /\ EscapeAt(buffer, 2) /\ FourHex(buffer, 4) \in 56320..57343) =>
              FirstString(Replacement)

\* The string whose content starts at byte i of s has a closing quote: a
\* quote that is not the second byte of a two-byte escape.
RECURSIVE Closes(_, _)
Closes(s, i) ==
    IF i > Len(s) THEN FALSE
    ELSE IF s[i] = 34 THEN TRUE
    ELSE IF s[i] = 92 /\ i < Len(s) THEN Closes(s, i + 2)
    ELSE Closes(s, i + 1)

\* A string that is never closed opens at offset p of the buffer.
UnterminatedAt(p) == Peek(buffer, p) = 34 /\ ~Closes(buffer, p + 2)

\* Every token returned for a string that is never closed is an Error token
\* that spans from the opening quote to the end of the buffer, and the token
\* after it is End.
UnterminatedIsError ==
    \A i \in DOMAIN emitted :
        UnterminatedAt(emitted[i].start) =>
            /\ emitted[i].kind = "Error"
            /\ emitted[i].end = Len(buffer)
            /\ i < Len(emitted) => emitted[i + 1].kind = "End"

\* C14: unterminated string.  When the buffer ends before the closing quote
\* of a string (a quote taken by a `\"` escape closes nothing), the call of
\* Lex::token at the string returns, its token is Error and spans from the
\* opening quote to the end of the buffer, and the next call returns End.
UnterminatedString ==
    /\ UnterminatedIsError
    /\ UnterminatedAt(skip_whitespace(buffer, cursor)) => panic = "none"

\* The offset of the first byte at or after offset p that is not a digit.
RECURSIVE DigitRun(_, _)
DigitRun(s, p) == IF IsDigit(Peek(s, p)) THEN DigitRun(s, p + 1) ELSE p

\* -?(0|[1-9][0-9]*): the offset after the integer part that starts at
\* offset p of s, or -1 when its digit is missing.
IntegerPart(s, p) ==
    LET a == IF Peek(s, p) = 45 THEN p + 1 ELSE p
    IN  IF Peek(s, a) = 48 THEN a + 1
        ELSE IF IsDigit(Peek(s, a)) THEN DigitRun(s, a)
        ELSE -1

\* (.[0-9]+)?: the offset after the fraction that may start at offset p, or
\* -1 when a `.` is there without a digit after it.
FractionPart(s, p) ==
    IF Peek(s, p) # 46 THEN p
    ELSE IF IsDigit(Peek(s, p + 1)) THEN DigitRun(s, p + 1)
    ELSE -1

\* ([eE][+-]?[0-9]+)?: the offset after the exponent that may start at
\* offset p, or -1 when `e` or `E` and its sign are there without a digit.
ExponentPart(s, p) ==
    LET d == IF Peek(s, p + 1) \in {43, 45} THEN p + 2 ELSE p + 1
    IN  IF Peek(s, p) \notin {101, 69} THEN p
        ELSE IF IsDigit(Peek(s, d)) THEN DigitRun(s, d)
        ELSE -1

\* The offset after the longest prefix of s[p..] that matches the grammar of
\* numbers, or -1 when a required digit sequence is missing.
NumberEnd(s, p) ==
    LET i == IntegerPart(s, p)
        f == IF i = -1 THEN -1 ELSE FractionPart(s, i)
    IN  IF f = -1 THEN -1 ELSE ExponentPart(s, f)

StartsNumber(p) == Peek(buffer, p) = 45 \/ IsDigit(Peek(buffer, p))

\* Every token returned at a `-` or a digit is a Number over the longest
\* prefix that matches the grammar, or an Error when a required digit
\* sequence is missing; `01` is the two Numbers `0` and `1`.
NumbersAsReturned ==
    /\ \A i \in DOMAIN emitted :
          StartsNumber(emitted[i].start) =>
              IF NumberEnd(buffer, emitted[i].start) = -1
              THEN emitted[i].kind = "Error"
              ELSE /\ emitted[i].kind = "Number"
                   /\ emitted[i].end = NumberEnd(buffer, emitted[i].start)
    /\ (buffer = <<48, 49>> /\ Len(emitted) >= 2) =>
          /\ emitted[1].kind = "Number" /\ emitted[1].end = 1
          /\ emitted[2].kind = "Number" /\ emitted[2].start = 1 /\ emitted[2].end = 2

\* C15: number recognition.  At a position starting with `-` or a digit the
\* call of Lex::token returns; its token is a Number whose span is the longest
\* prefix matching -?(0|[1-9][0-9]*)(.[0-9]+)?([eE][+-]?[0-9]+)?, or an Error
\* when a required digit sequence is missing; `01` lexes as two Numbers.
NumberRecognition ==
    /\ NumbersAsReturned
    /\ StartsNumber(skip_whitespace(buffer, cursor)) => panic = "none"

\* A byte of a run: neither whitespace nor a delimiter nor the first byte of
\* a string or of a number.
WordByte(b) ==
    /\ b # -1 /\ b \notin Whitespace /\ b \notin DOMAIN Punctuation
    /\ b # 34 /\ b # 45 /\ ~IsDigit(b)

\* The offsets where the run around offset p starts and ends.
RECURSIVE RunStart(_)
RunStart(p) ==
    IF p > 0 /\ WordByte(Peek(buffer, p - 1)) THEN RunStart(p - 1) ELSE p

RECURSIVE RunEnd(_)
RunEnd(p) == IF WordByte(Peek(buffer, p)) THEN RunEnd(p + 1) ELSE p

Run(p) == SubSeq(buffer, RunStart(p) + 1, RunEnd(p))

KeywordToken(t, kind, val) ==
    /\ t.kind = kind /\ t.val = val
    /\ t.start = RunStart(t.start) /\ t.end = RunEnd(t.start)

\* C16: keyword scanning.  Bool(true), Bool(false) and Null are returned only
\* for a run of bytes that is exactly `true`, `false` or `null`; every token
\* returned inside any other run of non-whitespace, non-delimiter bytes is an
\* Error token with a one-byte span.
KeywordScanning ==
    \A i \in DOMAIN emitted :
        WordByte(Peek(buffer, emitted[i].start)) =>
            IF Run(emitted[i].start) = TrueLit
            THEN KeywordToken(emitted[i], "Bool", TRUE)
            ELSE IF Run(emitted[i].start) = FalseLit
            THEN KeywordToken(emitted[i], "Bool", FALSE)
            ELSE IF Run(emitted[i].start) = NullLit
            THEN KeywordToken(emitted[i], "Null", Unit)
            ELSE /\ emitted[i].kind = "Error"
                 /\ emitted[i].end = emitted[i].start + 1

\* A u64 divided by ten: the quotient and the remainder.
U64DivMod10(x) ==
    LET q1 == x[1] \div 10
        r1 == x[1] % 10
        q2 == (r1 * 65536 + x[2]) \div 10
        r2 == (r1 * 65536 + x[2]) % 10
        q3 == (r2 * 65536 + x[3]) \div 10
        r3 == (r2 * 65536 + x[3]) % 10
        q4 == (r3 * 65536 + x[4]) \div 10
        r4 == (r3 * 65536 + x[4]) % 10
    IN  [q |-> <<q1, q2, q3, q4>>, r |-> r4]

\* The decimal digits of a u64, without leading zeros (none for zero).
RECURSIVE U64Decimal(_)
U64Decimal(x) ==
    IF x = U64Zero THEN <<>>
    ELSE U64Decimal(U64DivMod10(x).q) \o <<48 + U64DivMod10(x).r>>

RECURSIVE StripZeros(_)
StripZeros(ds) == IF ds # <<>> /\ ds[1] = 48 THEN StripZeros(Tail(ds)) ELSE ds

\* The integer that the digits ds write after the value v of the digits
\* before them, or -1 when it is larger than an i32 can hold.
RECURSIVE DecimalI32(_, _)
DecimalI32(ds, v) ==
    IF ds = <<>> \/ v = -1 THEN v
    ELSE IF v > (I32Max - (ds[1] - 48)) \div 10 THEN -1
    ELSE DecimalI32(Tail(ds), 10 * v + (ds[1] - 48))

\* The parts of the literal that the Number token t spans.
LiteralDigits(t) ==
    LET a == IF Peek(buffer, t.start) = 45 THEN t.start + 1 ELSE t.start
        i == IntegerPart(buffer, t.start)
        f == FractionPart(buffer, i)
        d == IF Peek(buffer, f + 1) \in {43, 45} THEN f + 2 ELSE f + 1
    IN  [positive |-> Peek(buffer, t.start) # 45,
         digits |-> SubSeq(buffer, a + 1, i) \o SubSeq(buffer, i + 2, f),
         fraction |-> IF f > i THEN f - i - 1 ELSE 0,
         exp_negative |-> Peek(buffer, f + 1) = 45,
         explicit |-> IF t.end > f THEN DecimalI32(SubSeq(buffer, d + 1, t.end), 0)
                      ELSE 0]

\* The significand and the exponent of the value v are those of the literal l.
ExactlyScaled(v, l) ==
    /\ v.positive = l.positive
    /\ U64Decimal(v.significand) = StripZeros(l.digits)
    /\ l.explicit # -1
    /\ v.exponent = (IF l.exp_negative THEN 0 - l.explicit ELSE l.explicit) - l.fraction

\* C17: decimal scaling bookkeeping.  For every literal lexed as a Number,
\* whatever its digit count, the significand is the integer written by the
\* digits of the integer part and of the fraction in order, and the exponent
\* is the explicit exponent with its sign (0 if absent) minus the number of
\* digits of the fraction.
DecimalScaling ==
    \A i \in DOMAIN emitted :
        emitted[i].kind = "Number" =>
            ExactlyScaled(emitted[i].val, LiteralDigits(emitted[i]))

\* Where the cursor was before the call that returned the i-th token.
CursorBefore(i) == IF i = 1 THEN 0 ELSE emitted[i - 1].end

\* C18: span accounting.  The span of each token runs from the first byte at
\* the cursor that is not a space, tab, CR or LF to the new cursor; only
\* those four bytes are skipped; the spans are disjoint and strictly
\* increasing in offset; every span but that of End is non-empty; and the
\* skipped whitespace and the spans, in order, are the consumed prefix of
\* the buffer.
SpanAccounting ==
    /\ cursor = CursorBefore(Len(emitted) + 1)
    /\ \A i \in DOMAIN emitted :
          /\ CursorBefore(i) <= emitted[i].start
          /\ \A k \in (CursorBefore(i) + 1)..emitted[i].start :
                buffer[k] \in {32, 9, 13, 10}
          /\ Peek(buffer, emitted[i].start) \notin {32, 9, 13, 10}
          /\ emitted[i].start <= emitted[i].end
          /\ emitted[i].end <= Len(buffer)
          /\ emitted[i].kind # "End" => emitted[i].start < emitted[i].end
          /\ emitted[i].kind = "End" => emitted[i].start = emitted[i].end
          /\ (i > 1 /\ emitted[i - 1].kind # "End") =>
                emitted[i - 1].start < emitted[i].start

\* Whitespace was skipped before the second of two tokens, and the buffer is
\* consumed to its end.
SpanAccountingWitness ==
    /\ Len(emitted) >= 3
    /\ emitted[2].start > emitted[1].end
    /\ emitted[2].kind # "End"
    /\ emitted[Len(emitted)].kind = "End"
    /\ cursor = Len(buffer)

\* The token the parser holds and has not looked at yet: the one a callee
\* has just returned, or the one the innermost state function was called
\* with.
Lookaheads ==
    {result[i].token : i \in DOMAIN result}
        \cup {stack[k].token :
                k \in {j \in DOMAIN stack :
                         stack[j].pc = "call" /\ "token" \in DOMAIN stack[j]}}

NonEndTokens(toks) == Cardinality({i \in DOMAIN toks : toks[i].kind # "End"})

\* C19: one token of lookahead, no backtracking.  The tokens Parse::value
\* has pulled are the first tokens of the buffer in order, each once; the
\* parser holds at most one token it has not consumed, and it is the last
\* one pulled; when the call returns Ok the number of Lex::token calls is the
\* number of non-End tokens of the buffer plus one, and the lexer is at the
\* end of the buffer.
OneTokenLookahead ==
    LET toks == TokensOf IN
    /\ Len(emitted) <= Len(toks)
    /\ emitted = SubSeq(toks, 1, Len(emitted))
    /\ Cardinality(Lookaheads) <= 1
    /\ \A t \in Lookaheads : emitted # <<>> /\ t = emitted[Len(emitted)]
    /\ outcome = "Ok" =>
          /\ Len(emitted) = NonEndTokens(toks) + 1
          /\ cursor = Len(buffer)

\* Parse::value returned Ok after a document of five tokens or more.
OneTokenLookaheadWitness ==
    /\ outcome = "Ok"
    /\ Len(emitted) >= 6
    /\ emitted[Len(emitted)].kind = "End"

\* The grammar of parse.rs lines 13-20 read token by token: what may come
\* next (mode) inside the containers that are still open.  The index of the
\* first token that may not come next, 0 when End closes a whole value, and
\* Len(toks) + 1 when the tokens stop before either.
RECURSIVE Scan(_, _, _, _)
Scan(toks, i, mode, open) ==
    LET k == KindAt(toks, i)
        inner == IF open = <<>> THEN "none" ELSE open[Len(open)]
        outer == SubSeq(open, 1, Len(open) - 1)
    IN  IF i > Len(toks) THEN i
        ELSE IF mode = "after"
        THEN IF inner = "none" THEN (IF k = "End" THEN 0 ELSE i)
             ELSE IF k = "Comma"
             THEN Scan(toks, i + 1, IF inner = "object" THEN "pair" ELSE "value", open)
             ELSE IF (inner = "object" /\ k = "RightBrace")
                     \/ (inner = "array" /\ k = "RightBracket")
             THEN Scan(toks, i + 1, "after", outer)
             ELSE i
        ELSE IF mode = "colon"
        THEN IF k = "Colon" THEN Scan(toks, i + 1, "value", open) ELSE i
        ELSE IF mode \in {"pair", "first pair"}
        THEN IF k = "String" THEN Scan(toks, i + 1, "colon", open)
             ELSE IF mode = "first pair" /\ k = "RightBrace"
             THEN Scan(toks, i + 1, "after", outer)
             ELSE i
        ELSE IF mode = "first element" /\ k = "RightBracket"
        THEN Scan(toks, i + 1, "after", outer)
        ELSE IF k \in {"String", "Number", "Bool", "Null"}
        THEN Scan(toks, i + 1, "after", open)
        ELSE IF k = "LeftBrace"
        THEN Scan(toks, i + 1, "first pair", Append(open, "object"))
        ELSE IF k = "LeftBracket"
        THEN Scan(toks, i + 1, "first element", Append(open, "array"))
        ELSE i

FirstUnexpected(toks) == Scan(toks, 1, "value", <<>>)

\* What fail-fast asks of the parser when token u of toks is the first one
\* that is not accepted.
StopsAt(toks, u) ==
    /\ Len(emitted) <= u
    /\ cursor <= toks[u].end
    /\ returned = Unit
    /\ outcome # "Ok"
    /\ panic # "overflow"
    /\ Finished => Len(emitted) = u

\* C20: fail-fast.  Parse::value never calls Lex::token after the call that
\* returned the first token a state does not accept, yields no Value, and
\* never scans the bytes after that token: a lexical error or an overflowing
\* lexeme later in the buffer does not change the outcome.
FailFast ==
    LET toks == TokensOf IN
    FirstUnexpected(toks) \in 1..Len(toks) => StopsAt(toks, FirstUnexpected(toks))

\* The parse is over at a token that is not accepted, and the lexeme after
\* it, which was never scanned, is one that makes Lex::token panic.
FailFastWitness ==
    /\ Finished /\ overflow_checks
    /\ FirstUnexpected(TokensOf) = Len(TokensOf)
    /\ KindAt(TokensOf, Len(TokensOf)) \notin {"End", "None"}
    /\ Len(emitted) = Len(TokensOf)
    /\ Len(emitted) >= 3

\* The escapes of JSON that stand for one byte: the byte after the backslash
\* and the byte it stands for.
Escaped ==
    [b \in {34, 92, 47, 98, 102, 110, 114, 116} |->
        CASE b = 98 -> 8 [] b = 102 -> 12 [] b = 110 -> 10
          [] b = 114 -> 13 [] b = 116 -> 9 [] OTHER -> b]

\* The text of the string whose content starts at offset p of s, read byte
\* by byte: an escape stands for its byte and every other byte, a backslash
\* or a control byte included, stands for itself.  The reading stops at the
\* closing quote ("closed"), at the end of s ("open") or at a `\u` escape
\* ("unicode").
RECURSIVE Decode(_, _, _)
Decode(s, p, text) ==
    IF Peek(s, p) = -1 THEN [how |-> "open", text |-> text, end |-> p]
    ELSE IF Peek(s, p) = 34 THEN [how |-> "closed", text |-> text, end |-> p + 1]
    ELSE IF Peek(s, p) = 92 /\ Peek(s, p + 1) = 117
    THEN [how |-> "unicode", text |-> text, end |-> p]
    ELSE IF Peek(s, p) = 92 /\ Peek(s, p + 1) \in DOMAIN Escaped
    THEN Decode(s, p + 2, Append(text, Escaped[Peek(s, p + 1)]))
    ELSE Decode(s, p + 1, Append(text, Peek(s, p)))

\* The token t returned at a quote is the string that d reads there.
ToleratedAs(t, d) ==
    /\ t.kind \in {"String", "Error"}
    /\ t.kind = "Error" => (t.end = Len(buffer) /\ ~Closes(buffer, t.start + 2))
    /\ d.how = "closed" => (t.kind = "String" /\ t.val = d.text /\ t.end = d.end)

ReturnType ==
    [f \in {"state0", "state5", "state16", "state7", "state8", "state11",
            "state12", "state19", "state20"} |->
        CASE f = "state0" -> "Value"
          [] f = "state5" -> "Object"
          [] f = "state16" -> "Array"
          [] f \in {"state7", "state8"} -> "Pair"
          [] f \in {"state11", "state12"} -> "Pairs"
          [] f \in {"state19", "state20"} -> "Elements"]

\* This step is the return of the innermost state function.
Returns == stack # <<>> /\ Len(stack') = Len(stack) - 1 /\ result' # <<>>

ReturnsTyped ==
    (Returns /\ Top.fn \in DOMAIN ReturnType) =>
        result'[1].nonterminal.nt = ReturnType[Top.fn]

\* What a loop gets from its callees is matched by an arm other than the
\* catch-all one, and Parse::value gets a Value from state0.
CatchAllsUnreached ==
    /\ (InLoop("state7") \/ InLoop("state19")) =>
          result[1].nonterminal.nt \in {"Object", "Array", "Value"}
    /\ InLoop("state11") => result[1].nonterminal.nt = "Pair"
    /\ (InLoop("state16") /\ Top.left_bracket) =>
          result[1].nonterminal.nt \in {"Object", "Array", "Value", "Elements"}
    /\ InLoop("value") => result[1].nonterminal.nt = "Value"
    /\ outcome = "Err" =>
          (emitted # <<>> /\ emitted[Len(emitted)].kind # "End")

\* C22: nonterminal typing of the state functions.  Whenever they return,
\* state5 returns Object, state16 Array, state6 and state7 Pair, state11
\* Pairs, state19 Elements and state0 Value; the catch-all arms of the loops
\* of state7, state11, state16 and state19 are never taken, and Parse::value
\* returns Err only because the token after a whole value is not End.
NonterminalTyping == []CatchAllsUnreached /\ [][ReturnsTyped]_vars

\* state6 has returned to state11 a Pair whose value is an array.
NonterminalTypingWitness ==
    /\ InLoop("state11") /\ Reduced("Pair")
    /\ result[1].nonterminal.v[2].t = "Array"

\* The activations of state16 on the stack, outermost first.
Activations16 == {k \in DOMAIN stack : stack[k].fn = "state16"}

\* How many `[` of toks have no `]` after them yet.
OpenBrackets(toks) ==
    Cardinality({i \in DOMAIN toks : toks[i].kind = "LeftBracket"})
        - Cardinality({i \in DOMAIN toks : toks[i].kind = "RightBracket"})

\* The flags of the activations of state16, state by state: an activation
\* starts with Some; state21 and state22 hold the flag of the innermost
\* activation, which is still Some and belongs to the `[` that the `]` just
\* read closes; a flag that is None is the flag of the innermost activation,
\* which is about to return the Array.
FlagsInOrder ==
    /\ panic # "unwrap on None"
    /\ \A k \in Activations16 :
          /\ stack[k].pc = "call" => stack[k].left_bracket
          /\ ~stack[k].left_bracket =>
                /\ k = Len(stack) /\ stack[k].pc = "loop"
                /\ Reduced("Array")
    /\ (stack # <<>> /\ Top.fn \in {"state21", "state22"}) =>
          /\ Top.lb = Len(stack) - 1
          /\ Top.lb \in Activations16
          /\ stack[Top.lb].left_bracket
          /\ emitted[Len(emitted)].kind = "RightBracket"
          /\ OpenBrackets(SubSeq(emitted, 1, Len(emitted) - 1))
                = Cardinality(Activations16)

\* The flags step by step: state21 and state22 clear the flag they hold as
\* they return; an activation whose flag is None returns at once, with what
\* it was handed; and state16 returns in no other way.
FlagsCleared ==
    /\ (Returns /\ Top.fn \in {"state21", "state22"}) =>
          /\ ~stack'[Top.lb].left_bracket
          /\ \A k \in Activations16 \ {Top.lb} :
                stack'[k].left_bracket = stack[k].left_bracket
    /\ (InLoop("state16") /\ ~Top.left_bracket /\ stack' # stack) =>
          (stack' = Callers /\ result' = result)
    /\ (Returns /\ Top.fn = "state16") => ~Top.left_bracket

\* C23: the left_bracket flag of state16.  Every activation of state16
\* starts with its own flag Some; state21 and state22 are only called with a
\* flag that is still Some, so `left_bracket.take().unwrap()` never fails;
\* an activation clears its flag once, on the `]` that closes its own `[`,
\* never on that of a nested or enclosing array, and returns right after.
LeftBracketProtocol == []FlagsInOrder /\ [][FlagsCleared]_vars

\* The activation of a nested array has cleared its flag and is about to
\* return, while the enclosing activation still has its flag.
LeftBracketProtocolWitness ==
    /\ InLoop("state16") /\ ~Top.left_bracket
    /\ \E k \in Activations16 : k < Len(stack) /\ stack[k].left_bracket

====
